---- MODULE Spec2Model ----
(***************************************************************************)
(* Model of change_mac.py: an interactive, strictly sequential tool that   *)
(* checks privileges, enumerates interfaces, backs up the current MAC of   *)
(* the chosen interface, applies a new MAC through platform commands and   *)
(* optionally restores the backed-up one.                                  *)
(*                                                                         *)
(* Strings are sequences of one-character strings, so that strip(),        *)
(* lower(), int() and the regular expression of validate_mac are computed  *)
(* on characters.  "ARABIC3" stands for U+0663, a decimal digit that is    *)
(* not ASCII.  Outcomes of external commands, the contents of the file     *)
(* system before the run and what the user types are the environment:      *)
(* they are drawn from small sets.                                         *)
(***************************************************************************)
EXTENDS Integers, Sequences, FiniteSets, TLC

\* ------------------------------------------------------------------ bounds
MaxIfaces == 2
MaxAttempts == 1

\* -------------------------------------------------------------- characters
AsciiDigits == {"0", "1", "2", "3", "4", "5", "6", "7", "8", "9"}
UnicodeDigits == {"ARABIC3"}
HexLetters == {"a", "b", "c", "d", "e", "f", "A", "B", "C", "D", "E", "F"}
Whitespace == {" ", "\t", "\n", "\r"}

\* \d of a str pattern: every Unicode decimal digit
IsDigit(c) == c \in AsciiDigits \cup UnicodeDigits

\* the class [\da-fA-F]
IsHexClass(c) == IsDigit(c) \/ c \in HexLetters

DigitVal(c) ==
    CASE c = "0" -> 0 [] c = "1" -> 1 [] c = "2" -> 2 [] c = "3" -> 3
      [] c = "4" -> 4 [] c = "5" -> 5 [] c = "6" -> 6 [] c = "7" -> 7
      [] c = "8" -> 8 [] c = "9" -> 9 [] c = "ARABIC3" -> 3

LowerChar(c) ==
    CASE c = "A" -> "a" [] c = "B" -> "b" [] c = "C" -> "c" [] c = "D" -> "d"
      [] c = "E" -> "e" [] c = "F" -> "f" [] c = "Y" -> "y" [] c = "N" -> "n"
      [] OTHER -> c

\* str.lower()
Lower(s) == [i \in DOMAIN s |-> LowerChar(s[i])]

RECURSIVE LStrip(_)
LStrip(s) ==
    IF s = <<>> THEN s
    ELSE IF Head(s) \in Whitespace THEN LStrip(Tail(s)) ELSE s

RECURSIVE RStrip(_)
RStrip(s) ==
    IF s = <<>> THEN s
    ELSE IF s[Len(s)] \in Whitespace THEN RStrip(SubSeq(s, 1, Len(s) - 1)) ELSE s

\* str.strip()
Strip(s) == RStrip(LStrip(s))

\* str.replace('-', ':')
DashToColon(s) == [i \in DOMAIN s |-> IF s[i] = "-" THEN ":" ELSE s[i]]

\* ------------------------------------------------------------ validate_mac
MacLen == 17

\* ([\da-fA-F]{2}:){5}[\da-fA-F]{2} matched from position 1
MatchGroups(s) ==
    /\ Len(s) >= MacLen
    /\ \A i \in 1..MacLen : IF i % 3 = 0 THEN s[i] = ":" ELSE IsHexClass(s[i])

\* $ without re.MULTILINE: at the end, or just before a newline that ends
\* the string; pos is the position of the next character to read
DollarAt(s, pos) ==
    \/ pos = Len(s) + 1
    \/ pos = Len(s) /\ s[pos] = "\n"

validate_mac(mac) == MatchGroups(mac) /\ DollarAt(mac, MacLen + 1)

\* ------------------------------------------------------------------- int()
RECURSIVE DigitsValue(_)
DigitsValue(s) ==
    IF s = <<>> THEN 0
    ELSE 10 * DigitsValue(SubSeq(s, 1, Len(s) - 1)) + DigitVal(s[Len(s)])

AllDigits(s) == s # <<>> /\ \A i \in DOMAIN s : IsDigit(s[i])

\* int(str): surrounding whitespace dropped, an optional sign, then digits;
\* ok = FALSE is ValueError
PyInt(s) ==
    LET t == Strip(s)
        signed == t # <<>> /\ Head(t) \in {"-", "+"}
        digits == IF signed THEN Tail(t) ELSE t
    IN  IF ~AllDigits(digits) THEN [ok |-> FALSE, val |-> 0]
        ELSE IF signed /\ Head(t) = "-"
          THEN [ok |-> TRUE, val |-> 0 - DigitsValue(digits)]
        ELSE [ok |-> TRUE, val |-> DigitsValue(digits)]

IndexError == "IndexError"

\* list[choice]: a negative index counts from the end of the list
PyIndex(list, choice) ==
    IF choice >= 0 /\ choice < Len(list) THEN list[choice + 1]
    ELSE IF choice < 0 /\ choice >= 0 - Len(list) THEN list[Len(list) + choice + 1]
    ELSE IndexError

\* ------------------------------------------------------------- environment
\* values of sys.platform
SysPlatforms == {"linux", "darwin", "win32", "sunos5"}

Unsupported == "unsupported"

get_os(p) ==
    CASE p = "linux" -> "linux"
      [] p = "darwin" -> "macos"
      [] p = "win32" -> "windows"
      [] OTHER -> Unsupported

\* os.geteuid(); NoEuid where the platform has none
RootUid == 0
NoEuid == 0 - 1
Euids(p) == IF get_os(p) \in {"linux", "macos"} THEN {RootUid, 1000} ELSE {NoEuid}

IfaceNames == {"eth0", "wlan0"}
NoIface == "none"

\* what the enumeration regex can return: names in order of appearance,
\* duplicates kept, possibly nothing
RECURSIVE ListsOfLen(_)
ListsOfLen(n) ==
    IF n = 0 THEN {<<>>}
    ELSE {Append(l, i) : l \in ListsOfLen(n - 1), i \in IfaceNames}
InterfaceLists == UNION {ListsOfLen(n) : n \in 0..MaxIfaces}

\* absent values, kept apart from every character sequence
None == <<"None">>
NotRun == <<"NotRun">>
NoFile == <<"NoFile">>

MacA == <<"1","1",":","2","2",":","3","3",":","4","4",":","5","5",":","6","6">>
MacB == <<"D","E",":","A","D",":","B","E",":","E","F",":","0","0",":","0","1">>
MacLower == Lower(MacB)
MacDash == <<"D","E","-","A","D","-","B","E","-","E","F","-","0","0","-","0","1">>
MacShort == SubSeq(MacB, 1, MacLen - 1)
MacArabic == [MacA EXCEPT ![1] = "ARABIC3"]

\* tokens the reader's pattern can capture from the tool output
EtherTokens == {MacA, MacB}
GetmacTokens == {MacDash}

\* f"{interface}_mac_backup.txt"
BackupFileName(iface) == <<iface, "_mac_backup.txt">>
FileNames == {BackupFileName(i) : i \in IfaceNames}

\* what a backup file may hold when the run starts
InitialFiles ==
    {NoFile, <<>>, MacArabic, <<" ">> \o MacB \o <<"\n">>}

\* lines the user may type
SelectionInputs ==
    {<<"1">>, <<" ", "2">>, <<"3">>, <<"0">>, <<"a">>}
MacInputs == {MacB, <<" ">> \o MacLower, MacShort, MacArabic}
AnswerInputs == {<<"y">>, <<"Y">>, <<"n">>, <<"y", "e", "s">>, <<>>}

\* ------------------------------------------------------------------- state
VARIABLES
    sys_platform,   \* sys.platform
    euid,           \* os.geteuid()
    pc,             \* position of main(): the step about to run
    interfaces,     \* main's list of interface names
    selection,      \* the line typed at the selection prompt
    interface,      \* main's selected interface
    files,          \* backup files: file name -> contents or NoFile
    current_mac,    \* backup_mac's current_mac: what the reader returned
    new_mac,        \* main's new_mac
    attempts,       \* rejected lines at the MAC prompt
    cmCaller,       \* who called change_mac last: "main" or "restore_mac"
    cmMac,          \* the new_mac argument of that call
    cmds,           \* subprocess calls made by change_mac, in order
    ifaceUp,        \* administrative state of each interface
    original_mac,   \* restore_mac's original_mac
    log,            \* lines written by logging
    traceback,      \* the exception that ended the process uncaught
    exitStatus,     \* exit status of the process
    success,        \* main printed "Success!"
    vIn,            \* argument of a direct call of validate_mac
    vOut            \* its result

vars == <<sys_platform, euid, pc, interfaces, selection, interface, files,
          current_mac, new_mac, attempts, cmCaller, cmMac, cmds, ifaceUp,
          original_mac, log, traceback, exitStatus, success, vIn, vOut>>

NoInput == <<"NoInput">>
Running == 0 - 1
NoCall == "nobody"
NoResult == "none"

Error(msg) == [level |-> "ERROR", msg |-> msg]
Info(msg) == [level |-> "INFO", msg |-> msg]

\* sys.exit(1) after logging.error(msg)
LogAndExit(msg) ==
    /\ log' = Append(log, Error(msg))
    /\ pc' = "exited"
    /\ exitStatus' = 1
    /\ UNCHANGED traceback

\* an exception nobody catches: the interpreter prints the traceback to
\* stderr and exits with status 1; logging is not involved
Uncaught(exc) ==
    /\ traceback' = exc
    /\ pc' = "exited"
    /\ exitStatus' = 1
    /\ UNCHANGED log

MainVarsInit ==
    /\ sys_platform \in SysPlatforms
    /\ euid \in Euids(sys_platform)
    /\ pc = "check_permissions"
    /\ interfaces = <<>>
    /\ selection = NoInput
    /\ interface = NoIface
    /\ files \in [FileNames -> InitialFiles]
    /\ current_mac = NotRun
    /\ new_mac = NotRun
    /\ attempts = 0
    /\ cmCaller = NoCall
    /\ cmMac = NotRun
    /\ cmds = <<>>
    /\ ifaceUp = [i \in IfaceNames |-> TRUE]
    /\ original_mac = NotRun
    /\ log = <<>>
    /\ traceback = NoResult
    /\ exitStatus = Running
    /\ success = FALSE

Init == MainVarsInit /\ vIn = <<>> /\ vOut = NoResult

\* ------------------------------------------------------- check_permissions
\* TRUE when check_permissions ends the process; whoamiOk is the outcome of
\* "whoami /priv", read on Windows only
PermissionDeniedNever(p, uid, whoamiOk) == FALSE
PermissionDenied(p, uid, whoamiOk) ==
    IF p \in {"linux", "darwin"} THEN uid # 0
    ELSE IF p = "win32" THEN ~whoamiOk
    ELSE FALSE

PermissionMessage(p) ==
    IF p = "win32" THEN "requires administrator privileges"
    ELSE "requires root privileges"

CheckPermissions ==
    /\ pc = "check_permissions"
    /\ \E whoamiOk \in BOOLEAN :
         IF PermissionDenied(sys_platform, euid, whoamiOk)
           THEN LogAndExit(PermissionMessage(sys_platform))
           ELSE /\ pc' = "get_interfaces"
                /\ UNCHANGED <<log, traceback, exitStatus>>
    /\ UNCHANGED <<sys_platform, euid, interfaces, selection, interface, files,
                   current_mac, new_mac, attempts, cmCaller, cmMac, cmds,
                   ifaceUp, original_mac, success, vIn, vOut>>

\* ---------------------------------------------------------- get_interfaces
\* the listing command raised
ToolFailed == <<"ToolFailed">>

GetInterfaces ==
    /\ pc = "get_interfaces"
    /\ IF get_os(sys_platform) = Unsupported
         THEN LogAndExit("Unsupported operating system") /\ UNCHANGED interfaces
         ELSE \E found \in InterfaceLists \cup {ToolFailed} :
                IF found = ToolFailed
                  THEN LogAndExit("Error detecting interfaces")
                       /\ UNCHANGED interfaces
                ELSE IF found = <<>>
                  THEN LogAndExit("No network interfaces found")
                       /\ UNCHANGED interfaces
                ELSE /\ interfaces' = found
                     /\ pc' = "select"
                     /\ UNCHANGED <<log, traceback, exitStatus>>
    /\ UNCHANGED <<sys_platform, euid, selection, interface, files,
                   current_mac, new_mac, attempts, cmCaller, cmMac, cmds,
                   ifaceUp, original_mac, success, vIn, vOut>>

\* ------------------------------------------------- main: interface selection
SelectInterface ==
    /\ pc = "select"
    /\ \E line \in SelectionInputs :
         /\ selection' = line
         /\ LET n == PyInt(line)
                picked == PyIndex(interfaces, n.val - 1)
            IN  IF ~n.ok
                  THEN Uncaught("ValueError") /\ UNCHANGED interface
                ELSE IF picked = IndexError
                  THEN Uncaught("IndexError") /\ UNCHANGED interface
                ELSE /\ interface' = picked
                     /\ pc' = "backup_mac"
                     /\ UNCHANGED <<log, traceback, exitStatus>>
    /\ UNCHANGED <<sys_platform, euid, interfaces, files, current_mac, new_mac,
                   attempts, cmCaller, cmMac, cmds, ifaceUp, original_mac,
                   success, vIn, vOut>>

\* --------------------------------------------------------- get_current_mac
\* the outcomes of get_current_mac: the value returned and whether the
\* except branch logged an error
ReaderOutcomes(os) ==
    {[ret |-> None, logged |-> TRUE], [ret |-> None, logged |-> FALSE]}
    \cup (IF os = "windows"
            THEN {[ret |-> DashToColon(t), logged |-> FALSE] : t \in GetmacTokens}
            ELSE {[ret |-> t, logged |-> FALSE] : t \in EtherTokens})

ReaderLog(r) == IF r.logged THEN <<Error("Error getting MAC address")>> ELSE <<>>

\* -------------------------------------------------------------- backup_mac
\* open(backup_file, 'w') followed by write(data)
WriteAppend(fs, name, data) ==
    [fs EXCEPT ![name] = IF fs[name] = NoFile THEN data ELSE fs[name] \o data]
WriteFile(fs, name, data) == [fs EXCEPT ![name] = data]

BackupMac ==
    /\ pc = "backup_mac"
    /\ \E r \in ReaderOutcomes(get_os(sys_platform)), writable \in BOOLEAN :
         /\ current_mac' = r.ret
         /\ IF r.ret # None
              THEN IF writable
                     THEN /\ files' = WriteFile(files, BackupFileName(interface), r.ret)
                          /\ log' = log \o ReaderLog(r) \o <<Info("Backed up MAC address")>>
                          /\ pc' = "prompt"
                          /\ UNCHANGED <<traceback, exitStatus>>
                     ELSE /\ Uncaught("OSError")
                          /\ UNCHANGED files
              ELSE /\ writable
                   /\ log' = log \o ReaderLog(r) \o <<Error("Failed to backup MAC address")>>
                   /\ pc' = "prompt"
                   /\ UNCHANGED <<files, traceback, exitStatus>>
    /\ UNCHANGED <<sys_platform, euid, interfaces, selection, interface, new_mac,
                   attempts, cmCaller, cmMac, cmds, ifaceUp, original_mac,
                   success, vIn, vOut>>

\* ------------------------------------------------------ main: new MAC prompt
PromptNewMac ==
    /\ pc = "prompt"
    /\ \E line \in MacInputs :
         LET typed == Strip(line)
         IN  IF validate_mac(typed)
               THEN /\ new_mac' = typed
                    /\ pc' = "change_mac"
                    /\ cmCaller' = "main"
                    /\ cmMac' = typed
                    /\ UNCHANGED attempts
               ELSE /\ attempts < MaxAttempts
                    /\ attempts' = attempts + 1
                    /\ new_mac' = typed
                    /\ UNCHANGED <<pc, cmCaller, cmMac>>
    /\ UNCHANGED <<sys_platform, euid, interfaces, selection, interface, files,
                   current_mac, cmds, ifaceUp, original_mac, log, traceback,
                   exitStatus, success, vIn, vOut>>

\* -------------------------------------------------------------- change_mac
NoMac == <<>>
Cmd(prog, iface, op, mac) == [prog |-> prog, iface |-> iface, op |-> op, mac |-> mac]

\* the subprocess.run calls of each branch, in program order
LinuxCommands(iface, mac) ==
    << Cmd("sudo ifconfig", iface, "down", NoMac),
       Cmd("sudo ifconfig", iface, "hw ether", mac),
       Cmd("sudo ifconfig", iface, "up", NoMac) >>

MacosCommands(iface, mac) == << Cmd("sudo ifconfig", iface, "ether", mac) >>

WindowsCommands(iface, mac) ==
    << Cmd("netsh interface set interface", iface, "newmac=", mac) >>

ChangeMacCommands(os, iface, mac) ==
    CASE os = "linux" -> LinuxCommands(iface, mac)
      [] os = "macos" -> MacosCommands(iface, mac)
      [] os = "windows" -> WindowsCommands(iface, mac)

\* check=True: the calls made when the first k commands succeed; the call
\* after them fails (non-zero exit or launch failure) and raises
InvokedUnchecked(c, k) == [i \in 1..Len(c) |-> [cmd |-> c[i], ok |-> i # k + 1]]
Invoked(c, k) ==
    [i \in 1..(IF k < Len(c) THEN k + 1 ELSE Len(c)) |-> [cmd |-> c[i], ok |-> i <= k]]

\* what the commands that succeeded do to the interfaces
RECURSIVE Effects(_, _)
Effects(up, done) ==
    IF done = <<>> THEN up
    ELSE LET h == Head(done)
             next == IF h.ok /\ h.cmd.op = "down" THEN [up EXCEPT ![h.cmd.iface] = FALSE]
                     ELSE IF h.ok /\ h.cmd.op = "up" THEN [up EXCEPT ![h.cmd.iface] = TRUE]
                     ELSE up
         IN  Effects(next, Tail(done))

\* the call of change_mac that main or restore_mac has just made
ChangeMac ==
    /\ pc = "change_mac"
    /\ LET c == ChangeMacCommands(get_os(sys_platform), interface, cmMac)
       IN  \E k \in 0..Len(c) :
             LET done == Invoked(c, k)
             IN  /\ cmds' = cmds \o done
                 /\ ifaceUp' = Effects(ifaceUp, done)
                 /\ IF k < Len(c)
                      THEN LogAndExit("Error changing MAC address")
                    ELSE IF cmCaller = "main"
                      THEN /\ log' = Append(log, Info("MAC address changed"))
                           /\ pc' = "verify"
                           /\ UNCHANGED <<traceback, exitStatus>>
                    ELSE /\ log' = log \o <<Info("MAC address changed"),
                                              Info("Restored MAC address")>>
                         /\ pc' = "done"
                         /\ exitStatus' = 0
                         /\ UNCHANGED traceback
    /\ UNCHANGED <<sys_platform, euid, interfaces, selection, interface, files,
                   current_mac, new_mac, attempts, cmCaller, cmMac,
                   original_mac, success, vIn, vOut>>

\* ------------------------------------------------------ main: confirmation
VerifyChange ==
    /\ pc = "verify"
    /\ \E r \in ReaderOutcomes(get_os(sys_platform)) :
         /\ success' = (r.ret = new_mac)
         /\ log' = log \o ReaderLog(r)
    /\ pc' = "ask_restore"
    /\ UNCHANGED <<sys_platform, euid, interfaces, selection, interface, files,
                   current_mac, new_mac, attempts, cmCaller, cmMac, cmds,
                   ifaceUp, original_mac, traceback, exitStatus, vIn, vOut>>

\* ------------------------------------------------------ main: restore prompt
AskRestore ==
    /\ pc = "ask_restore"
    /\ \E line \in AnswerInputs :
         IF Lower(line) = <<"y">>
           THEN pc' = "restore_mac" /\ UNCHANGED exitStatus
           ELSE pc' = "done" /\ exitStatus' = 0
    /\ UNCHANGED <<sys_platform, euid, interfaces, selection, interface, files,
                   current_mac, new_mac, attempts, cmCaller, cmMac, cmds,
                   ifaceUp, original_mac, log, traceback, success, vIn, vOut>>

\* ------------------------------------------------------------- restore_mac
\* f.read().strip()
ReadBackupRaw(content) == content
ReadBackup(content) == Strip(content)

\* except Exception: the error is logged and restore_mac returns to main,
\* which ends
RestoreReadErrorUncaught ==
    /\ Uncaught("OSError")
    /\ UNCHANGED <<original_mac, cmCaller, cmMac>>
RestoreReadError ==
    /\ log' = Append(log, Error("Error restoring MAC address"))
    /\ pc' = "done"
    /\ exitStatus' = 0
    /\ UNCHANGED <<original_mac, cmCaller, cmMac, traceback>>

RestoreMac ==
    /\ pc = "restore_mac"
    /\ \E readable \in BOOLEAN :
         LET content == files[BackupFileName(interface)]
         IN  IF content = NoFile \/ ~readable
               THEN RestoreReadError
               ELSE /\ original_mac' = ReadBackup(content)
                    /\ IF validate_mac(original_mac')
                         THEN /\ pc' = "change_mac"
                              /\ cmCaller' = "restore_mac"
                              /\ cmMac' = original_mac'
                              /\ UNCHANGED <<log, traceback, exitStatus>>
                         ELSE /\ log' = Append(log, Error("Invalid MAC address in backup file"))
                              /\ pc' = "done"
                              /\ exitStatus' = 0
                              /\ UNCHANGED <<cmCaller, cmMac, traceback>>
    /\ UNCHANGED <<sys_platform, euid, interfaces, selection, interface, files,
                   current_mac, new_mac, attempts, cmds, ifaceUp, success,
                   vIn, vOut>>

\* ------------------------------------------------------------ specification
Next ==
    \/ CheckPermissions
    \/ GetInterfaces
    \/ SelectInterface
    \/ BackupMac
    \/ PromptNewMac
    \/ ChangeMac
    \/ VerifyChange
    \/ AskRestore
    \/ RestoreMac

Spec == Init /\ [][Next]_vars

\* --------------------------------------- validate_mac called on its own
EditChars == {"0", "F", "g", ":", "-", "\n", " ", "ARABIC3"}

\* s with one character replaced, removed or added at the end
Edits(s) ==
    {s}
    \cup {[s EXCEPT ![i] = c] : i \in DOMAIN s, c \in EditChars}
    \cup {SubSeq(s, 1, i - 1) \o SubSeq(s, i + 1, Len(s)) : i \in DOMAIN s}
    \cup {Append(s, c) : c \in EditChars}

ValidateInputs == Edits(MacA) \cup Edits(MacLower) \cup Edits(MacDash) \cup {<<>>}

InitValidate ==
    /\ vIn \in ValidateInputs
    /\ vOut = NoResult
    /\ sys_platform = "linux"
    /\ euid = RootUid
    /\ pc = "validate_mac"
    /\ interfaces = <<>>
    /\ selection = NoInput
    /\ interface = NoIface
    /\ files = [f \in FileNames |-> NoFile]
    /\ current_mac = NotRun
    /\ new_mac = NotRun
    /\ attempts = 0
    /\ cmCaller = NoCall
    /\ cmMac = NotRun
    /\ cmds = <<>>
    /\ ifaceUp = [i \in IfaceNames |-> TRUE]
    /\ original_mac = NotRun
    /\ log = <<>>
    /\ traceback = NoResult
    /\ exitStatus = Running
    /\ success = FALSE

CallValidate ==
    /\ pc = "validate_mac"
    /\ vOut' = IF validate_mac(vIn) THEN "True" ELSE "False"
    /\ pc' = "returned"
    /\ UNCHANGED <<sys_platform, euid, interfaces, selection, interface, files,
                   current_mac, new_mac, attempts, cmCaller, cmMac, cmds,
                   ifaceUp, original_mac, log, traceback, exitStatus, success,
                   vIn>>

NextValidate == CallValidate

SpecValidate == InitValidate /\ [][NextValidate]_vars

\* ------------------------------------------------------------------ claims
Last(q) == q[Len(q)]

LastLogIs(entry) == log # <<>> /\ Last(log) = entry

\* a MAC address in the canonical form XX:XX:XX:XX:XX:XX: six groups of two
\* ASCII hex digits with colons between, and nothing else
IsCanonicalMac(s) ==
    /\ Len(s) = MacLen
    /\ \A i \in 1..MacLen :
         IF i % 3 = 0 THEN s[i] = ":" ELSE s[i] \in AsciiDigits \cup HexLetters

\* SubSeq(content, i, j) is content without its surrounding whitespace
IsTrimOf(content, i, j) ==
    /\ i <= j + 1
    /\ \A k \in 1..(i - 1) : content[k] \in Whitespace
    /\ \A k \in (j + 1)..Len(content) : content[k] \in Whitespace
    /\ i <= j => content[i] \notin Whitespace /\ content[j] \notin Whitespace

TrimmedValues(content) ==
    {SubSeq(content, p[1], p[2]) :
        p \in {q \in (1..(Len(content) + 1)) \X (0..Len(content)) :
                 IsTrimOf(content, q[1], q[2])}}

BackupFile == files[BackupFileName(interface)]

NonRootUnix == sys_platform \in {"linux", "darwin"} /\ euid # RootUid

\* C1: on linux or macos with an effective UID other than 0, the run never
\* gets past check_permissions: the process is ended there, change_mac is
\* never called and no Mutator command is ever invoked.
C1_NoMutationWithoutRoot ==
    NonRootUnix =>
        /\ pc \in {"check_permissions", "exited"}
        /\ cmCaller = NoCall
        /\ cmds = <<>>

C1_Witness ==
    /\ NonRootUnix
    /\ pc = "exited"
    /\ exitStatus = 1
    /\ LastLogIs(Error("requires root privileges"))

\* C2: the backup step has completed before change_mac is called and before
\* any Mutator command, and when the reader returned a MAC m at the backup
\* step, the backup file of the selected interface holds exactly m at the
\* moment main calls change_mac.
C2_BackupBeforeMutation ==
    /\ (pc = "change_mac" \/ cmds # <<>>) => current_mac # NotRun
    /\ (pc = "change_mac" /\ cmCaller = "main" /\ current_mac # None)
         => BackupFile = current_mac

C2_Witness ==
    /\ pc = "change_mac"
    /\ cmCaller = "main"
    /\ cmds = <<>>
    /\ interface = "eth0"
    /\ current_mac = MacA
    /\ BackupFile = MacA

\* the commands issued by the call of change_mac that restore_mac made: main's
\* own call ran all its commands before restore was offered
RestoreCmds ==
    LET n == Len(ChangeMacCommands(get_os(sys_platform), interface, new_mac))
    IN  SubSeq(cmds, n + 1, Len(cmds))

\* C3: once restore_mac has read the backup file, if the contents without
\* surrounding whitespace are a value m that validate_mac accepts, restore_mac
\* has called change_mac for the selected interface with exactly m, and every
\* command of that call names that interface and carries no address but m.
C3_RestoreRoundTrip ==
    original_mac # NotRun =>
        \A m \in TrimmedValues(BackupFile) :
            validate_mac(m) =>
                /\ cmCaller = "restore_mac"
                /\ cmMac = m
                /\ \A i \in DOMAIN RestoreCmds :
                     /\ RestoreCmds[i].cmd.iface = interface
                     /\ RestoreCmds[i].cmd.mac \in {NoMac, m}

C3_Witness ==
    /\ pc = "done"
    /\ cmCaller = "restore_mac"
    /\ BackupFile = <<" ">> \o MacB \o <<"\n">>
    /\ cmMac = MacB
    /\ \E i \in DOMAIN RestoreCmds : RestoreCmds[i].cmd.mac = MacB

\* C4: once restore_mac has read a backup file whose contents without
\* surrounding whitespace are not a canonical MAC address, change_mac has not
\* been called by restore_mac and the last log line is the error about the
\* invalid backup.
C4_InvalidBackupNotRestored ==
    original_mac # NotRun =>
        \A m \in TrimmedValues(BackupFile) :
            ~IsCanonicalMac(m) =>
                /\ cmCaller # "restore_mac"
                /\ LastLogIs(Error("Invalid MAC address in backup file"))

\* C5 as claimed: the process never ends inside restore_mac, whatever the
\* backup file holds and whatever the commands it triggers do.
C5_RestoreNeverFatal == pc = "exited" => cmCaller # "restore_mac"

\* C5 as amended: restore_mac itself always hands control on, to main (which
\* then ends normally) or to change_mac; the call of change_mac it makes
\* returns to main unless one of its commands fails, and then the process
\* ends with status 1 after the error is logged.
C5_RestoreFatalOnlyOnCommandFailure ==
    [][ /\ pc = "restore_mac" =>
              \/ pc' = "done" /\ exitStatus' = 0
              \/ pc' = "change_mac" /\ cmCaller' = "restore_mac"
        /\ (pc = "change_mac" /\ cmCaller = "restore_mac") =>
              \/ /\ pc' = "done"
                 /\ exitStatus' = 0
                 /\ \A i \in DOMAIN cmds' : cmds'[i].ok
              \/ /\ pc' = "exited"
                 /\ exitStatus' = 1
                 /\ ~Last(cmds').ok
                 /\ Last(log') = Error("Error changing MAC address") ]_vars

C5_Witness ==
    /\ pc = "exited"
    /\ cmCaller = "restore_mac"
    /\ ~Last(cmds).ok
    /\ exitStatus = 1

\* C6: validate_mac returns true exactly for the canonical MAC addresses and
\* false for every other string.
C6_ValidateExact ==
    vOut # NoResult => ((vOut = "True") <=> IsCanonicalMac(vIn))

\* C7: whenever the process has ended abnormally, its exit status is 1 and
\* the last thing logged is an ERROR line.
C7_FatalPathsLogged ==
    pc = "exited" =>
        /\ exitStatus = 1
        /\ log # <<>>
        /\ Last(log).level = "ERROR"

NextOp(op) ==
    CASE op = "down" -> "hw ether"
      [] op = "hw ether" -> "up"
      [] op = "up" -> "down"

\* C8: on Linux the commands come in the order down, set hardware address,
\* up; a command is only invoked after the one before it succeeded; a failed
\* command is the last one invoked, the error is logged and the process ends
\* with status 1; when the set-address command fails the interface is down.
C8_LinuxSequence ==
    sys_platform = "linux" =>
        /\ cmds # <<>> => cmds[1].cmd.op = "down"
        /\ \A i \in 2..Len(cmds) :
             /\ cmds[i - 1].ok
             /\ cmds[i].cmd.op = NextOp(cmds[i - 1].cmd.op)
        /\ \A i \in DOMAIN cmds :
             /\ cmds[i].cmd.iface = interface
             /\ ~cmds[i].ok =>
                  /\ i = Len(cmds)
                  /\ pc = "exited"
                  /\ exitStatus = 1
                  /\ LastLogIs(Error("Error changing MAC address"))
             /\ (~cmds[i].ok /\ cmds[i].cmd.op = "hw ether") => ~ifaceUp[interface]

C8_Witness ==
    /\ sys_platform = "linux"
    /\ Len(cmds) = 2
    /\ cmds[1].ok
    /\ cmds[2].cmd.op = "hw ether"
    /\ ~cmds[2].ok
    /\ pc = "exited"
    /\ ~ifaceUp[interface]

\* C9: a selection k with 1 <= k <= n picks the k-th enumerated interface,
\* and every other line typed at the selection prompt ends the process
\* before the backup step runs and before change_mac is called.
C9_SelectionInRange ==
    selection # NoInput =>
        LET k == PyInt(selection)
        IN  IF k.ok /\ 1 <= k.val /\ k.val <= Len(interfaces)
              THEN interface = interfaces[k.val]
              ELSE /\ pc = "exited"
                   /\ current_mac = NotRun
                   /\ cmCaller = NoCall
                   /\ cmds = <<>>

\* C10: whenever restore_mac has called change_mac, the MAC it passed is the
\* one the reader returned at the backup step of the same run.
C10_RestoreAppliesBackedUpMac ==
    cmCaller = "restore_mac" => cmMac = current_mac

====
